---- MODULE Spec2Model ----
(***************************************************************************)
(* A model of cardio/core/utils.py: the units conversion helper, the       *)
(* partialmethod wrapper and the LabelBinarizer subclass that encodes      *)
(* every label with n_classes columns.                                     *)
(*                                                                         *)
(* Arrays are sequences: a 1-D array is a sequence of numbers, a 2-D array *)
(* a sequence of rows.  A threshold is <<>> for None and <<p, q>> for the  *)
(* number p/q (q > 0).                                                     *)
(***************************************************************************)
EXTENDS Integers, Sequences, FiniteSets, TLC

\* ------------------------------------------------------------------ bounds
\* Labels are 1..MaxLabel; label sequences have 1..MaxLen elements; a matrix
\* handed directly to inverse_transform has 1..MaxRows rows.
MaxLabel == 3
MaxLen == 3
MaxRows == 1
\* partialmethod: at most MaxArgs fixed and MaxArgs call-time positional arguments.
MaxArgs == 2

Labels == 1..MaxLabel
\* Entries of a matrix handed to inverse_transform (one-hot and soft scores).
Scores == {0, 1, 2}
None == <<>>
Thresholds == {None, <<1, 2>>, <<3, 2>>}

VARIABLES
    classes_,     \* LabelBinarizer.classes_ (<<>> before fit)
    y_type_,      \* LabelBinarizer.y_type_
    op,           \* the last encoder method called
    y_in,         \* the labels given to the last transform
    Y,            \* the matrix returned by transform / given to inverse_transform
    threshold,    \* the threshold given to inverse_transform
    y_out,        \* the labels returned by inverse_transform
    old_units,    \* get_units_conversion_factor's arguments ...
    new_units,
    result,       \* ... and what the call gave the caller
    wrapper,      \* what partialmethod closed over: func, frozen_args, frozen_kwargs
    call          \* the last call of the wrapper and what it did

encVars == <<classes_, y_type_, op, y_in, Y, threshold, y_out>>
unitVars == <<old_units, new_units, result>>
pmVars == <<wrapper, call>>
vars == <<classes_, y_type_, op, y_in, Y, threshold, y_out,
          old_units, new_units, result, wrapper, call>>

\* ------------------------------------------------------------ array helpers
Range(s) == {s[i] : i \in DOMAIN s}

SeqsUpTo(S, n) == UNION {[1..k -> S] : k \in 1..n}

Matrices(S, nrows, ncols) == UNION {[1..k -> [1..ncols -> S]] : k \in 1..nrows}

RECURSIVE SortedSeq(_)
SortedSeq(S) ==
    IF S = {} THEN <<>>
    ELSE LET m == CHOOSE x \in S : \A z \in S : x <= z
         IN <<m>> \o SortedSeq(S \ {m})

\* 1 - Y on a 2-D array
OneMinus(M) == [i \in DOMAIN M |-> [j \in DOMAIN M[i] |-> 1 - M[i][j]]]

\* np.hstack((A, B)) on 2-D arrays with the same number of rows
hstack(A, B) == [i \in DOMAIN A |-> A[i] \o B[i]]

\* Y[:, k] (k counted from 1): a 1-D array
Column(M, k) == [i \in DOMAIN M |-> M[i][k]]

\* v > threshold, for threshold = <<p, q>>
Gt(v, t) == v * t[2] > t[1]

\* index (from 1) of the first maximum of a row: np.argmax
ArgMax(row) ==
    CHOOSE j \in DOMAIN row :
        /\ \A k \in DOMAIN row : row[k] <= row[j]
        /\ \A k \in DOMAIN row : k < j => row[k] < row[j]

\* ------------------------------------------------- the base encoder (sklearn)
type_of_target(y) == IF Cardinality(Range(y)) > 2 THEN "multiclass" ELSE "binary"

\* sklearn.preprocessing.label_binarize with neg_label = 0, pos_label = 1,
\* dense output: what super().transform(y) returns.
label_binarize(y, classes) ==
    LET n_classes == Len(classes)
        y_type0 == type_of_target(y)
        y_type == IF y_type0 = "binary" /\ n_classes >= 3 THEN "multiclass" ELSE y_type0
        Full == [i \in DOMAIN y |->
                    [j \in 1..n_classes |-> IF y[i] = classes[j] THEN 1 ELSE 0]]
    IN  IF y_type0 = "binary" /\ n_classes = 1
        THEN [i \in DOMAIN y |-> <<0>>]
        ELSE IF y_type = "binary"
             THEN [i \in DOMAIN y |-> <<Full[i][n_classes]>>]
             ELSE Full

\* sklearn's _inverse_binarize_multiclass
inverse_binarize_multiclass(M, classes) == [i \in DOMAIN M |-> classes[ArgMax(M[i])]]

\* sklearn's _inverse_binarize_thresholding for output_type "binary"; A is a
\* 1-D array (ndim = 1) or a 2-D array (ndim = 2).
inverse_binarize_thresholding(A, ndim, classes, t) ==
    LET bit(v) == IF Gt(v, t) THEN 1 ELSE 0
    IN  IF ndim = 2 /\ Len(A[1]) = 2
        THEN [i \in DOMAIN A |-> classes[bit(A[i][2]) + 1]]
        ELSE IF Len(classes) = 1
             THEN [i \in DOMAIN A |-> classes[1]]
             ELSE IF ndim = 2
                  THEN [i \in DOMAIN A |-> classes[bit(A[i][1]) + 1]]
                  ELSE [i \in DOMAIN A |-> classes[bit(A[i]) + 1]]

\* super().inverse_transform(A, threshold)
LB_inverse_transform(A, ndim, classes, y_type, t) ==
    LET thr == IF t = None THEN <<1 + 0, 2>> ELSE t
    IN  IF y_type = "multiclass"
        THEN inverse_binarize_multiclass(A, classes)
        ELSE inverse_binarize_thresholding(A, ndim, classes, thr)

\* ------------------------------------------------ cardio's LabelBinarizer
\* Variants of transform with one slip each (used to test the properties below).
transform_no_hstack(classes, y) ==
    LET Y0 == label_binarize(y, classes)
    IN  IF Len(classes) = 1 THEN OneMinus(Y0) ELSE Y0

transform_swapped(classes, y) ==
    LET Y0 == label_binarize(y, classes)
        Y1 == IF Len(classes) = 1 THEN OneMinus(Y0) ELSE Y0
    IN  IF Len(classes) = 2 THEN hstack(Y1, OneMinus(Y1)) ELSE Y1

transform_no_invert(classes, y) ==
    LET Y0 == label_binarize(y, classes)
    IN  IF Len(classes) = 2 THEN hstack(OneMinus(Y0), Y0) ELSE Y0

transform_hstack_ge2(classes, y) ==
    LET Y0 == label_binarize(y, classes)
        Y1 == IF Len(classes) = 1 THEN OneMinus(Y0) ELSE Y0
    IN  IF Len(classes) >= 2 THEN hstack(OneMinus(Y1), Y1) ELSE Y1

transform(classes, y) ==
    LET Y0 == label_binarize(y, classes)
        Y1 == IF Len(classes) = 1 THEN OneMinus(Y0) ELSE Y0
        Y2 == IF Len(classes) = 2 THEN hstack(OneMinus(Y1), Y1) ELSE Y1
    IN  Y2

\* Variants of inverse_transform with one slip each.
inverse_transform_first_column(classes, y_type, M, t) ==
    IF Len(classes) = 1
    THEN LB_inverse_transform(OneMinus(M), 2, classes, y_type, t)
    ELSE IF Len(classes) = 2
         THEN LB_inverse_transform(Column(M, 1), 1, classes, y_type, t)
         ELSE LB_inverse_transform(M, 2, classes, y_type, t)

inverse_transform_drop_threshold(classes, y_type, M, t) ==
    IF Len(classes) = 1
    THEN LB_inverse_transform(OneMinus(M), 2, classes, y_type, None)
    ELSE IF Len(classes) = 2
         THEN LB_inverse_transform(Column(M, 2), 1, classes, y_type, None)
         ELSE LB_inverse_transform(M, 2, classes, y_type, None)

inverse_transform(classes, y_type, M, t) ==
    IF Len(classes) = 1
    THEN LB_inverse_transform(OneMinus(M), 2, classes, y_type, t)
    ELSE IF Len(classes) = 2
         THEN LB_inverse_transform(Column(M, 2), 1, classes, y_type, t)
         ELSE LB_inverse_transform(M, 2, classes, y_type, t)

\* --------------------------------------------- the unit registry (pint)
\* Rationals are <<p, q>> with q > 0, in lowest terms.
RECURSIVE Gcd(_, _)
Gcd(a, b) == IF b = 0 THEN a ELSE Gcd(b, a % b)

Abs(a) == IF a < 0 THEN -a ELSE a

Rat(p, q) ==
    LET g == Gcd(Abs(p), Abs(q))
        sgn == IF q < 0 THEN -1 ELSE 1
    IN  <<sgn * (p \div g), sgn * (q \div g)>>

RatAdd(a, b) == Rat(a[1] * b[2] + b[1] * a[2], a[2] * b[2])
RatSub(a, b) == Rat(a[1] * b[2] - b[1] * a[2], a[2] * b[2])
RatMul(a, b) == Rat(a[1] * b[1], a[2] * b[2])
RatDiv(a, b) == Rat(a[1] * b[2], a[2] * b[1])

\* The part of UNIT_REGISTRY the model uses: each unit's dimension, its size
\* in the base unit of the dimension and its offset from the base unit's zero
\* (base = value * scale + offset).
UNIT_REGISTRY ==
    [ meter      |-> [dim |-> "length",      scale |-> <<1, 1>>,       offset |-> <<0, 1>>],
      kilometer  |-> [dim |-> "length",      scale |-> <<1000, 1>>,    offset |-> <<0, 1>>],
      millimeter |-> [dim |-> "length",      scale |-> <<1, 1000>>,    offset |-> <<0, 1>>],
      second     |-> [dim |-> "time",        scale |-> <<1, 1>>,       offset |-> <<0, 1>>],
      millisecond |-> [dim |-> "time",       scale |-> <<1, 1000>>,    offset |-> <<0, 1>>],
      volt       |-> [dim |-> "voltage",     scale |-> <<1, 1>>,       offset |-> <<0, 1>>],
      millivolt  |-> [dim |-> "voltage",     scale |-> <<1, 1000>>,    offset |-> <<0, 1>>],
      microvolt  |-> [dim |-> "voltage",     scale |-> <<1, 1000000>>, offset |-> <<0, 1>>],
      kelvin     |-> [dim |-> "temperature", scale |-> <<1, 1>>,       offset |-> <<0, 1>>],
      degC       |-> [dim |-> "temperature", scale |-> <<1, 1>>,       offset |-> <<5463, 20>>] ]

Defined == DOMAIN UNIT_REGISTRY
\* a name the registry does not define, and an expression that does not parse
Undefined == {"parsec_per_blink"}
Malformed == {"meter **"}
Notations == Defined \cup Undefined \cup Malformed

\* the quantity v of unit `old` expressed in unit `new` (same dimension)
Convert(v, old, new) ==
    LET o == UNIT_REGISTRY[old]
        n == UNIT_REGISTRY[new]
        base == RatAdd(RatMul(v, o.scale), o.offset)
    IN  RatDiv(RatSub(base, n.offset), n.scale)

Raise(cls, text) == [raised |-> TRUE, called |-> TRUE, cls |-> cls, msg |-> text]
Return(v) == [raised |-> FALSE, called |-> TRUE, value |-> v]

\* UNIT_REGISTRY(old).to(new).magnitude: the magnitude of one `old` in `new`,
\* or the exception the library raises while parsing or converting.
registry_to_magnitude(old, new) ==
    IF old \in Malformed THEN Raise("DefinitionSyntaxError", <<"cannot parse", old>>)
    ELSE IF old \in Undefined THEN Raise("UndefinedUnitError", <<"not defined", old>>)
    ELSE IF new \in Malformed THEN Raise("DefinitionSyntaxError", <<"cannot parse", new>>)
    ELSE IF new \in Undefined THEN Raise("UndefinedUnitError", <<"not defined", new>>)
    ELSE IF UNIT_REGISTRY[old].dim # UNIT_REGISTRY[new].dim
         THEN Raise("DimensionalityError", <<"cannot convert", old, new>>)
    ELSE Return(Convert(<<1, 1>>, old, new))

\* ------------------------------------------- get_units_conversion_factor
\* Variants with one slip each.
get_units_conversion_factor_reraise(old, new) == registry_to_magnitude(old, new)

get_units_conversion_factor(old, new) ==
    LET r == registry_to_magnitude(old, new)
    IN  IF r.raised
        THEN Raise("ValueError", <<r.cls, ": ", r.msg>>)
        ELSE Return(r.value)

\* ----------------------------------------------------------- partialmethod
\* Methods to wrap, instances, argument values and keyword names.
Funcs == {"f", "g"}
Instances == {"obj1", "obj2"}
Values == {"u", "v"}
Names == {"a", "b"}

ArgTuples == {<<>>} \cup SeqsUpTo(Values, MaxArgs)
KwargDicts == UNION {[D -> Values] : D \in SUBSET Names}

\* A call func(*positional, **first, **second): Python raises TypeError for a
\* keyword given twice and otherwise invokes func once with the merged keywords.
\* A method's return value is an uninterpreted term of its arguments.
PyCall(func, positional, first, second) ==
    IF DOMAIN first \cap DOMAIN second # {}
    THEN [raised |-> TRUE, cls |-> "TypeError", invoked |-> <<>>]
    ELSE LET inv == [func |-> func, args |-> positional, kwargs |-> first @@ second]
         IN  [raised |-> FALSE, invoked |-> <<inv>>, value |-> <<"return", inv>>]

\* Variants of method with one slip each.
method_args_first(w, self, args, kwargs) ==
    PyCall(w.func, <<self>> \o args \o w.frozen_args, w.frozen_kwargs, kwargs)

method_override(w, self, args, kwargs) ==
    LET rest == [k \in DOMAIN w.frozen_kwargs \ DOMAIN kwargs |-> w.frozen_kwargs[k]]
    IN  PyCall(w.func, <<self>> \o w.frozen_args \o args, rest, kwargs)

\* the wrapper's body: func(self, *frozen_args, *args, **frozen_kwargs, **kwargs)
method(w, self, args, kwargs) ==
    PyCall(w.func, <<self>> \o w.frozen_args \o args, w.frozen_kwargs, kwargs)

\* ------------------------------------------------------------------ actions
\* The three utilities share no state, so each has its own specification over
\* the common initial state: SpecEncoder, SpecUnits and SpecPartial.
Init ==
    /\ classes_ = <<>>
    /\ y_type_ = "none"
    /\ op = "init"
    /\ y_in = <<>>
    /\ Y = <<>>
    /\ threshold = None
    /\ y_out = <<>>
    /\ old_units = ""
    /\ new_units = ""
    /\ result = [raised |-> FALSE, called |-> FALSE]
    /\ wrapper = [made |-> FALSE]
    /\ call = [made |-> FALSE]

\* The methods other than fit only read classes_ and y_type_, so a behaviour is
\* one fit followed by one transform/inverse_transform chain; longer call
\* sequences repeat these steps from the same fitted state.
\* fit(y): inherited; classes_ are the sorted distinct labels of y.
Fit ==
    /\ op = "init"
    /\ \E y \in SeqsUpTo(Labels, MaxLen) :
        /\ classes_' = SortedSeq(Range(y))
        /\ y_type_' = type_of_target(y)
        /\ op' = "fit"
        /\ y_in' = <<>>
        /\ Y' = <<>>
        /\ threshold' = None
        /\ y_out' = <<>>
    /\ UNCHANGED <<unitVars, pmVars>>

Transform ==
    /\ op = "fit"
    /\ \E y \in SeqsUpTo(Labels, MaxLen) :
        /\ y_in' = y
        /\ Y' = transform(classes_, y)
    /\ op' = "transform"
    /\ threshold' = None
    /\ y_out' = <<>>
    /\ UNCHANGED <<classes_, y_type_, unitVars, pmVars>>

\* inverse_transform on the matrix the last transform returned
InverseOfTransform ==
    /\ op = "transform"
    /\ \E t \in Thresholds :
        /\ threshold' = t
        /\ y_out' = inverse_transform(classes_, y_type_, Y, t)
    /\ op' = "inverse_transform"
    /\ UNCHANGED <<classes_, y_type_, y_in, Y, unitVars, pmVars>>

\* inverse_transform on a matrix of shape [n_samples, n_classes] the caller made
InverseTransform ==
    /\ op = "fit"
    /\ \E M \in Matrices(Scores, MaxRows, Len(classes_)), t \in Thresholds :
        /\ Y' = M
        /\ threshold' = t
        /\ y_out' = inverse_transform(classes_, y_type_, M, t)
    /\ op' = "inverse_transform"
    /\ y_in' = <<>>
    /\ UNCHANGED <<classes_, y_type_, unitVars, pmVars>>

GetUnitsConversionFactor ==
    /\ \E old \in Notations, new \in Notations :
        /\ old_units' = old
        /\ new_units' = new
        /\ result' = get_units_conversion_factor(old, new)
    /\ UNCHANGED <<encVars, pmVars>>

SpecUnits == Init /\ [][GetUnitsConversionFactor]_vars

\* ------------------------------------- properties of the conversion helper
\* what the registry did for the arguments of the last call
Inner == registry_to_magnitude(old_units, new_units)

Parseable == old_units \in Defined /\ new_units \in Defined

Compatible == Parseable /\ UNIT_REGISTRY[old_units].dim = UNIT_REGISTRY[new_units].dim

\* quantities to convert
Quantities == {<<0, 1>>, <<1, 1>>, <<5, 2>>, <<-3, 1>>}

\* C6: every failure of the registry reaches the caller as a ValueError whose
\* message is the failure's class name, ": " and the failure's text; no other
\* exception class escapes and no factor is returned.
C6_UniformError ==
    (result.called /\ Inner.raised) =>
        /\ result.raised
        /\ result.cls = "ValueError"
        /\ result.msg = <<Inner.cls, ": ", Inner.msg>>
        /\ "value" \notin DOMAIN result

C6_Witness ==
    /\ result.called
    /\ old_units = "meter" /\ new_units = "second"
    /\ result.raised /\ result.cls = "ValueError"
    /\ result.msg[1] = "DimensionalityError"

\* C7, as claimed: for every parseable, compatible pair the call returns a
\* factor f with quantity_in_new_units = f * quantity_in_old_units.
C7_AsClaimed ==
    (result.called /\ Compatible) =>
        /\ ~result.raised
        /\ \A q \in Quantities :
                Convert(q, old_units, new_units) = RatMul(result.value, q)

\* partialmethod(func, *frozen_args, **frozen_kwargs)
PartialMethod ==
    /\ ~wrapper.made
    /\ \E func \in Funcs, fa \in ArgTuples, fk \in KwargDicts :
        wrapper' = [made |-> TRUE, func |-> func, frozen_args |-> fa, frozen_kwargs |-> fk]
    /\ UNCHANGED <<encVars, unitVars, call>>

\* wrapped(instance, *args, **kwargs)
CallWrapped ==
    /\ wrapper.made
    /\ ~call.made
    /\ \E self \in Instances, args \in ArgTuples, kwargs \in KwargDicts :
        call' = [made |-> TRUE, self |-> self, args |-> args, kwargs |-> kwargs,
                 outcome |-> method(wrapper, self, args, kwargs)]
    /\ UNCHANGED <<encVars, unitVars, wrapper>>

PmNext == PartialMethod \/ CallWrapped

SpecPartial == Init /\ [][PmNext]_vars

\* ------------------------------------------------ properties of partialmethod
\* a call-time keyword has the name of a fixed keyword
Clash == DOMAIN wrapper.frozen_kwargs \cap DOMAIN call.kwargs # {}

\* the original was invoked exactly once as
\* original(instance, *fixed, *a, **fixed_k, **k) and its result returned
InvokedOnceInOrder ==
    LET out == call.outcome
        n == Len(wrapper.frozen_args)
    IN  /\ ~out.raised
        /\ Len(out.invoked) = 1
        /\ out.invoked[1].func = wrapper.func
        /\ Len(out.invoked[1].args) = 1 + n + Len(call.args)
        /\ out.invoked[1].args[1] = call.self
        /\ \A i \in 1..n : out.invoked[1].args[1 + i] = wrapper.frozen_args[i]
        /\ \A i \in 1..Len(call.args) : out.invoked[1].args[1 + n + i] = call.args[i]
        /\ DOMAIN out.invoked[1].kwargs = DOMAIN wrapper.frozen_kwargs \cup DOMAIN call.kwargs
        /\ \A k \in DOMAIN wrapper.frozen_kwargs \ DOMAIN call.kwargs :
                out.invoked[1].kwargs[k] = wrapper.frozen_kwargs[k]
        /\ \A k \in DOMAIN call.kwargs \ DOMAIN wrapper.frozen_kwargs :
                out.invoked[1].kwargs[k] = call.kwargs[k]
        /\ out.value = <<"return", out.invoked[1]>>

\* the call failed with TypeError before the original was invoked
RaisedTypeError ==
    /\ call.outcome.raised
    /\ call.outcome.cls = "TypeError"
    /\ call.outcome.invoked = <<>>

\* C8, as claimed: every call of the wrapper invokes the original exactly once
\* with the instance, the fixed and then the call-time arguments.
C8_AsClaimed == call.made => InvokedOnceInOrder

\* C8, amended: a call whose keyword names are all different from the fixed
\* keyword names invokes the original exactly once, in that order, and returns
\* its result; a call that repeats a fixed keyword name fails with TypeError
\* before the original is invoked, as the spelled-out call does.
C8_Forwarding ==
    call.made =>
        /\ ~Clash => InvokedOnceInOrder
        /\ Clash => RaisedTypeError

C8_Witness ==
    /\ call.made
    /\ ~Clash
    /\ Len(wrapper.frozen_args) = 2 /\ wrapper.frozen_args[1] # wrapper.frozen_args[2]
    /\ Len(call.args) = 2 /\ call.args[1] # call.args[2]
    /\ wrapper.frozen_args # call.args
    /\ DOMAIN wrapper.frozen_kwargs = {"a"} /\ DOMAIN call.kwargs = {"b"}
    /\ InvokedOnceInOrder

\* C9, as claimed: a call-time keyword with the name of a fixed keyword
\* overrides it: the original is invoked with the call-time value.
C9_AsClaimed ==
    (call.made /\ Clash) =>
        /\ Len(call.outcome.invoked) = 1
        /\ \A k \in DOMAIN call.kwargs :
                call.outcome.invoked[1].kwargs[k] = call.kwargs[k]

\* C9, amended: a call-time keyword with the name of a fixed keyword makes the
\* call fail with TypeError (the keyword has two values); the original is not
\* invoked with either value.
C9_DuplicateKeyword == (call.made /\ Clash) => RaisedTypeError

C9_Witness ==
    /\ call.made
    /\ "a" \in DOMAIN wrapper.frozen_kwargs /\ "a" \in DOMAIN call.kwargs
    /\ wrapper.frozen_kwargs["a"] # call.kwargs["a"]
    /\ RaisedTypeError

EncNext == Fit \/ Transform \/ InverseOfTransform \/ InverseTransform

SpecEncoder == Init /\ [][EncNext]_vars

\* ------------------------------------------------- properties of the encoder
n_classes == Len(classes_)

\* the labels given to transform are drawn from the fitted classes
Drawn == y_in # <<>> /\ Range(y_in) \subseteq Range(classes_)

\* transform has returned for labels drawn from the fitted classes
Transformed == op = "transform" /\ Drawn

\* inverse_transform has returned for the matrix transform made of such labels
RoundTripped == op = "inverse_transform" /\ Drawn

\* C1: with the default threshold, inverse_transform(transform(y)) has the
\* length of y and equals y element by element, for every number of classes.
C1_RoundTrip ==
    (RoundTripped /\ threshold = None) =>
        /\ Len(y_out) = Len(y_in)
        /\ \A i \in DOMAIN y_in : y_out[i] = y_in[i]

C1_Witness ==
    /\ RoundTripped /\ threshold = None
    /\ n_classes = 2
    /\ Range(y_in) = Range(classes_)
    /\ y_out = y_in

\* C2: transform returns exactly n rows of exactly n_classes columns.
C2_Shape ==
    Transformed =>
        /\ Len(Y) = Len(y_in)
        /\ \A i \in DOMAIN Y : Len(Y[i]) = n_classes

C2_Witness ==
    /\ Transformed
    /\ n_classes = 2
    /\ Len(y_in) >= 2
    /\ \A i \in DOMAIN Y : Len(Y[i]) = 2

\* C3: with two classes the row of sample i is (1 - b, b), b the base encoder's
\* single column: the entries sum to 1, the second is 1 exactly for the second
\* class and the first is 1 exactly for the first class.
C3_TwoClasses ==
    (Transformed /\ n_classes = 2) =>
        LET B == label_binarize(y_in, classes_)
        IN  \A i \in DOMAIN y_in :
                /\ Len(B[i]) = 1
                /\ Y[i] = <<1 - B[i][1], B[i][1]>>
                /\ Y[i][1] + Y[i][2] = 1
                /\ (Y[i][2] = 1) <=> (y_in[i] = classes_[2])
                /\ (Y[i][1] = 1) <=> (y_in[i] = classes_[1])

C3_Witness ==
    /\ Transformed
    /\ n_classes = 2
    /\ Range(y_in) = Range(classes_)
    /\ \E i \in DOMAIN Y : Y[i] = <<1, 0>>
    /\ \E i \in DOMAIN Y : Y[i] = <<0, 1>>

\* C4, as claimed: with one class the base encoder's column is all 1, transform
\* returns its negation, and inverse_transform recovers the labels.
C4_AsClaimed ==
    ((Transformed \/ RoundTripped) /\ n_classes = 1) =>
        LET B == label_binarize(y_in, classes_)
        IN  /\ \A i \in DOMAIN y_in : B[i] = <<1>>
            /\ Y = OneMinus(B)
            /\ RoundTripped => y_out = y_in

\* C4, amended: with one class the base encoder's column is all 0 (neg_label),
\* transform returns its negation 1 - Y, a single column of ones, and
\* inverse_transform recovers the labels.
C4_OneClass ==
    ((Transformed \/ RoundTripped) /\ n_classes = 1) =>
        LET B == label_binarize(y_in, classes_)
        IN  /\ \A i \in DOMAIN y_in : B[i] = <<0>>
            /\ Y = OneMinus(B)
            /\ \A i \in DOMAIN y_in : Y[i] = <<1>>
            /\ RoundTripped => y_out = y_in

C4_Witness ==
    /\ RoundTripped
    /\ n_classes = 1
    /\ Len(y_in) >= 2
    /\ \A i \in DOMAIN Y : Y[i] = <<1>>
    /\ y_out = y_in

\* C5: with three or more classes transform and inverse_transform return what
\* the base encoder returns for the same input and threshold.
C5_PassThrough ==
    n_classes >= 3 =>
        /\ (op = "transform" \/ (op = "inverse_transform" /\ y_in # <<>>)) =>
                Y = label_binarize(y_in, classes_)
        /\ op = "inverse_transform" =>
                y_out = LB_inverse_transform(Y, 2, classes_, y_type_, threshold)

C5_Witness ==
    /\ op = "inverse_transform"
    /\ n_classes >= 3
    /\ Drawn
    /\ Cardinality(Range(y_in)) >= 2
    /\ \A i \in DOMAIN Y : Len(Y[i]) = n_classes

\* C10: inverse_transform hands 1 - Y (one class), the second column of Y (two
\* classes: the first column does not matter) or Y itself (three or more) to
\* the base inverse with the caller's threshold, and returns one label per row.
C10_InverseBranches ==
    op = "inverse_transform" =>
        /\ n_classes = 1 =>
                y_out = LB_inverse_transform(OneMinus(Y), 2, classes_, y_type_, threshold)
        /\ n_classes = 2 =>
                /\ y_out = LB_inverse_transform(Column(Y, 2), 1, classes_, y_type_, threshold)
                /\ \A first \in [DOMAIN Y -> Scores] :
                        inverse_transform(classes_, y_type_,
                            [i \in DOMAIN Y |-> <<first[i], Y[i][2]>>], threshold) = y_out
        /\ n_classes >= 3 =>
                y_out = LB_inverse_transform(Y, 2, classes_, y_type_, threshold)
        /\ Len(y_out) = Len(Y)
        /\ \A i \in DOMAIN y_out : y_out[i] \in Range(classes_)

\* a soft two-class input whose first column alone would give the other label,
\* decided with a threshold the caller chose
C10_Witness ==
    /\ op = "inverse_transform"
    /\ n_classes = 2
    /\ threshold = <<3, 2>>
    /\ \E i \in DOMAIN Y : Y[i] = <<2, 1>> /\ y_out[i] = classes_[1]

====
